---------------------------- MODULE Spec2Model ----------------------------
(***************************************************************************)
(* Model of the calendar tool service (backend/main.py) and of the one-time *)
(* OAuth refresh-token helper (backend/get_refresh_token.py).               *)
(*                                                                         *)
(* Time is counted in minutes from 2030-10-27T00:00:00Z, the night          *)
(* Europe/London leaves summer time (01:00 UTC), so that a repeated local   *)
(* hour lies inside the modelled window.                                    *)
(***************************************************************************)
EXTENDS Integers, Sequences, FiniteSets, TLC

VARIABLES
    GOOGLE_CLIENT_ID,      \* main.py module constants, read from the environment at import
    GOOGLE_CLIENT_SECRET,
    GOOGLE_REFRESH_TOKEN,
    call,                  \* call[r]: the locals and the position of create_event call r
    outbound,              \* outbound[r]: the requests.post calls issued by call r, in order
    OAUTH_STATE,           \* get_refresh_token.py module constant STATE (a reserved word here)
    link,                  \* the state value embedded in the last page index() rendered
    cb,                    \* cb[k]: the locals and the position of oauth2callback call k
    exchange,              \* exchange[k]: the token-exchange posts issued by callback k
    nz                     \* harness of normalize_start_end: its arguments and its result

vars == <<GOOGLE_CLIENT_ID, GOOGLE_CLIENT_SECRET, GOOGLE_REFRESH_TOKEN, call, outbound,
          OAUTH_STATE, link, cb, exchange, nz>>

serviceVars == <<GOOGLE_CLIENT_ID, GOOGLE_CLIENT_SECRET, GOOGLE_REFRESH_TOKEN, call, outbound>>
helperVars == <<OAUTH_STATE, link, cb, exchange>>

-----------------------------------------------------------------------------
(* Bounds of the model *)

\* create_event calls in flight together
NumRequests == 2
\* oauth2callback requests the helper receives
NumCallbacks == 2
\* start timestamps tried: clock-face values 0, 30, ..., 30 * MaxStartSlot
MaxStartSlot == 6

(* Field constraints of CreateEventRequest *)
NameMaxLength == 120
TitleMaxLength == 200
DurationMin == 15
DurationMax == 240
DurationDefault == 30
TimezoneMaxLength == 64

-----------------------------------------------------------------------------
(* datetime values: a clock face (minutes), the fold flag, and a tzinfo.    *)

\* tzinfo None: a naive datetime, and what tz.gettz returns for an unknown name
NoTz == [kind |-> "none", off |-> 0, name |-> ""]
\* the fixed-offset tzinfo a parsed "Z" or "+hh:mm" suffix gives
FixedTz(off) == [kind |-> "fixed", off |-> off, name |-> ""]
ZoneTz(name) == [kind |-> "zone", off |-> 0, name |-> name]

\* The zone rules inside the modelled window: the UTC offset before and after
\* the one transition instant (UTC minutes).
ZoneRules ==
    [n \in {"UTC", "America/Los_Angeles", "Europe/London"} |->
        CASE n = "UTC" -> [before |-> 0, after |-> 0, trans |-> 0]
          [] n = "America/Los_Angeles" -> [before |-> -420, after |-> -420, trans |-> 0]
          [] n = "Europe/London" -> [before |-> 60, after |-> 0, trans |-> 60]]

\* tz.gettz(name): one cached tzinfo object per known name, None otherwise
gettz(name) == IF name \in DOMAIN ZoneRules THEN ZoneTz(name) ELSE NoTz

Datetime(wall, fold, tzinfo) == [wall |-> wall, fold |-> fold, tzinfo |-> tzinfo]

\* whether the clock face occurs twice in the zone (the repeated hour)
is_ambiguous(name, wall) ==
    LET z == ZoneRules[name]
    IN  z.after < z.before /\ z.trans + z.after <= wall /\ wall < z.trans + z.before

\* dt.utcoffset()
utcoffset(dt) ==
    CASE dt.tzinfo.kind = "fixed" -> dt.tzinfo.off
      [] dt.tzinfo.kind = "zone" ->
            LET z == ZoneRules[dt.tzinfo.name]
            IN  IF is_ambiguous(dt.tzinfo.name, dt.wall)
                THEN (IF dt.fold = 1 THEN z.after ELSE z.before)
                ELSE (IF dt.wall < z.trans + z.after THEN z.before ELSE z.after)
      [] OTHER -> 0

\* the absolute instant an aware datetime denotes (UTC minutes)
Instant(dt) == dt.wall - utcoffset(dt)

\* tzinfo.fromutc: the zone's wall clock at a UTC instant, fold set on the
\* second pass through a repeated hour
fromutc(tzinfo, u) ==
    IF tzinfo.kind = "zone"
    THEN LET z == ZoneRules[tzinfo.name]
             off == IF u < z.trans THEN z.before ELSE z.after
         IN  Datetime(u + off,
                      IF u >= z.trans /\ is_ambiguous(tzinfo.name, u + off) THEN 1 ELSE 0,
                      tzinfo)
    ELSE Datetime(u + tzinfo.off, 0, tzinfo)

\* dt.replace(tzinfo=tzinfo): the clock face is kept
replace_tzinfo(dt, tzinfo) == Datetime(dt.wall, dt.fold, tzinfo)

\* dt.astimezone(tzinfo) of an aware datetime: the instant is kept
astimezone(dt, tzinfo) == fromutc(tzinfo, Instant(dt))

\* dt + timedelta(minutes=m): clock-face arithmetic, tzinfo kept, fold reset
plus_minutes(dt, m) == Datetime(dt.wall + m, 0, dt.tzinfo)

\* a < b on aware datetimes: the clock faces are compared when both carry the
\* same tzinfo object, the instants otherwise
datetime_lt(a, b) ==
    IF a.tzinfo = b.tzinfo THEN a.wall < b.wall ELSE Instant(a) < Instant(b)

\* datetime.now(tzinfo) when the clock reads UTC instant u
datetime_now(tzinfo, u) == fromutc(tzinfo, u)

-----------------------------------------------------------------------------
(* normalize_start_end                                                      *)

NoDatetime == Datetime(0, 0, NoTz)

normalize_shift_naive(start_dt, duration_minutes, timezone) ==
    LET tzinfo == gettz(timezone)
    IN  IF tzinfo = NoTz
        THEN [ok |-> FALSE, status |-> 400, start_local |-> NoDatetime, end_local |-> NoDatetime]
        ELSE LET start_local == astimezone(replace_tzinfo(start_dt, FixedTz(0)), tzinfo)
             IN  [ok |-> TRUE, status |-> 0, start_local |-> start_local,
                  end_local |-> plus_minutes(start_local, duration_minutes)]

normalize_start_end(start_dt, duration_minutes, timezone) ==
    LET tzinfo == gettz(timezone)
    IN  IF tzinfo = NoTz
        THEN [ok |-> FALSE, status |-> 400, start_local |-> NoDatetime, end_local |-> NoDatetime]
        ELSE LET start_local == IF start_dt.tzinfo = NoTz
                                THEN replace_tzinfo(start_dt, tzinfo)
                                ELSE astimezone(start_dt, tzinfo)
             IN  [ok |-> TRUE, status |-> 0, start_local |-> start_local,
                  end_local |-> plus_minutes(start_local, duration_minutes)]

-----------------------------------------------------------------------------
(* CreateEventRequest: the JSON body and its validation                     *)

RECURSIVE Repeat(_, _)
Repeat(ch, n) ==
    IF n = 0 THEN ""
    ELSE LET half == Repeat(ch, n \div 2)
         IN  half \o half \o (IF n % 2 = 1 THEN ch ELSE "")

BodyKeys == {"name", "title", "start", "durationMinutes", "timezone", "invitees"}

\* a parsed ISO-8601 start: naive, or with the offset its suffix gives
NaiveStart(wall) == [parses |-> TRUE, dt |-> Datetime(wall, 0, NoTz)]
AwareStart(wall, off) == [parses |-> TRUE, dt |-> Datetime(wall, 0, FixedTz(off))]
BadStart == [parses |-> FALSE, dt |-> NoDatetime]

\* the strings EmailStr accepts, among those the model sends
WellFormedEmails == {"ada@example.com", "bob@example.com"}

duration_in_open_range(d) == d > DurationMin /\ d < DurationMax

\* Field(30, ge=15, le=240)
duration_in_range(d) == d >= DurationMin /\ d <= DurationMax

\* The fields pydantic reports: a required key missing, or a value outside
\* its Field(...) constraint.  A key left out takes its default unvalidated.
ValidationErrors(raw) ==
    {k \in BodyKeys :
        CASE k = "name" -> \/ k \notin raw.present
                           \/ Len(raw.name) < 1
                           \/ Len(raw.name) > NameMaxLength
          [] k = "title" -> /\ k \in raw.present
                            /\ (Len(raw.title) < 1 \/ Len(raw.title) > TitleMaxLength)
          [] k = "start" -> k \notin raw.present \/ ~raw.start.parses
          [] k = "durationMinutes" -> /\ k \in raw.present
                                      /\ ~duration_in_range(raw.durationMinutes)
          [] k = "timezone" -> /\ k \in raw.present
                               /\ \/ Len(raw.timezone) < 1
                                  \/ Len(raw.timezone) > TimezoneMaxLength
          [] k = "invitees" -> /\ k \in raw.present
                               /\ \E i \in 1..Len(raw.invitees) :
                                      raw.invitees[i] \notin WellFormedEmails}

DEFAULT_TIMEZONE == "America/Los_Angeles"

\* The validated model: defaults filled in.  invitees None and [] behave
\* alike everywhere they are read ("invitees or []", "if req.invitees").
CreateEventRequest(raw) ==
    [name |-> raw.name,
     title |-> IF "title" \in raw.present THEN raw.title ELSE "Meeting",
     start |-> raw.start.dt,
     durationMinutes |-> IF "durationMinutes" \in raw.present
                         THEN raw.durationMinutes ELSE DurationDefault,
     timezone |-> IF "timezone" \in raw.present THEN raw.timezone ELSE DEFAULT_TIMEZONE,
     invitees |-> IF "invitees" \in raw.present THEN raw.invitees ELSE << >>]

NoRequest ==
    [name |-> "", title |-> "", start |-> NoDatetime, durationMinutes |-> 0,
     timezone |-> "", invitees |-> << >>]

_require_env_skipped == TRUE

\* _require_env passes: all three values are non-empty
_require_env == GOOGLE_CLIENT_ID # "" /\ GOOGLE_CLIENT_SECRET # "" /\ GOOGLE_REFRESH_TOKEN # ""

\* dt.isoformat(): the clock face and, for an aware datetime, its UTC offset;
\* neither the zone's name nor the fold is printed
isoformat(dt) ==
    [wall |-> dt.wall, aware |-> dt.tzinfo # NoTz, offset |-> utcoffset(dt)]

\* _make_request_id: the key is the f-string of the six fields joined by "|";
\* the truncated sha256 digest is modelled by the key it is taken of
_make_request_id(payload) ==
    payload.name \o "|" \o payload.title \o "|" \o ToString(isoformat(payload.start))
        \o "|" \o ToString(payload.durationMinutes) \o "|" \o payload.timezone
        \o "|" \o ToString(payload.invitees)

NoRequestId == ""

NoRaw ==
    [present |-> {}, name |-> "", title |-> "", start |-> BadStart, durationMinutes |-> 0,
     timezone |-> "", invitees |-> << >>]

-----------------------------------------------------------------------------
(* The provider's answers to the two outbound calls                         *)

\* requests.post raised (timeout, connection error): there is no response
Raised == [raised |-> TRUE, status_code |-> 0, parses |-> FALSE, data |-> [error |-> "none"]]
\* a response; parses says whether resp.json() returns (data) or raises
Response(status_code, parses, data) ==
    [raised |-> FALSE, status_code |-> status_code, parses |-> parses, data |-> data]

NotJson == [error |-> "not json"]
AccessTokens == {"ya29.a", "ya29.b"}

TokenOutcomes ==
    {Raised, Response(200, FALSE, NotJson), Response(401, FALSE, NotJson),
     Response(200, TRUE, [error |-> "invalid_grant"]),
     Response(401, TRUE, [error |-> "invalid_client"]),
     Response(401, TRUE, [access_token |-> "ya29.a"])}
    \cup {Response(200, TRUE, [access_token |-> t]) : t \in AccessTokens}

ProviderEvent ==
    [id |-> "abc123", htmlLink |-> "https://calendar/abc123", summary |-> "Sync (provider)",
     start |-> [dateTime |-> isoformat(Datetime(0, 0, FixedTz(0)))],
     end |-> [dateTime |-> isoformat(Datetime(30, 0, FixedTz(0)))]]

InsertOutcomes ==
    {Raised, Response(200, FALSE, NotJson), Response(403, TRUE, [error |-> "forbidden"]),
     Response(200, TRUE, ProviderEvent), Response(201, TRUE, [kind |-> "calendar#event"])}

TokenUrl == "https://oauth2.googleapis.com/token"
InsertUrl == "https://www.googleapis.com/calendar/v3/calendars/primary/events"

-----------------------------------------------------------------------------
(* create_event                                                             *)

Requests == 1..NumRequests

NoResponse ==
    [eventId |-> "", htmlLink |-> "", summary |-> "", start |-> isoformat(NoDatetime),
     end |-> isoformat(NoDatetime), calendarId |-> "", requestId |-> ""]

IdleCall ==
    [pc |-> "idle", raw |-> NoRaw, raw_errors |-> {}, req |-> NoRequest, start_local |-> NoDatetime,
     end_local |-> NoDatetime, now_local |-> NoDatetime, request_id |-> NoRequestId,
     access_token |-> "", token_resp |-> Raised, insert_resp |-> Raised,
     status |-> 0, detail |-> "", response |-> NoResponse]

\* the event payload
event_body(c) ==
    [summary |-> c.req.title,
     description |-> "Scheduled by voice assistant for " \o c.req.name
                         \o ". RequestId: " \o c.request_id,
     start |-> [dateTime |-> isoformat(c.start_local), timeZone |-> c.req.timezone],
     end |-> [dateTime |-> isoformat(c.end_local), timeZone |-> c.req.timezone],
     attendees |-> c.req.invitees]

token_post == [url |-> TokenUrl, bearer |-> "", refresh_token |-> GOOGLE_REFRESH_TOKEN]

post_token_refresh_unless_cached(r) ==
    IF \E j \in Requests : call[j].access_token # "" THEN outbound[r]
    ELSE Append(outbound[r], token_post)

\* requests.post to the token endpoint, grant type refresh_token
post_token_refresh(r) == Append(outbound[r], token_post)

insert_post(c) ==
    [url |-> InsertUrl, bearer |-> c.access_token, body |-> event_body(c)]

post_insert_unless_seen(r, c) ==
    IF \E j \in Requests \ {r} : \E i \in 1..Len(outbound[j]) :
           outbound[j][i].url = InsertUrl /\ outbound[j][i].body = event_body(c)
    THEN outbound[r]
    ELSE Append(outbound[r], insert_post(c))

\* requests.post to the event-insert endpoint, the bearer being access_token
post_insert(r, c) == Append(outbound[r], insert_post(c))

\* the call ends with an error response
Fail(r, c, status, detail) ==
    /\ call' = [call EXCEPT ![r] = [c EXCEPT !.pc = "done", !.status = status,
                                              !.detail = detail]]
    /\ UNCHANGED outbound

in_past_or_now(start_local, now_local) == ~datetime_lt(now_local, start_local)

\* start_local < now_local
in_past(start_local, now_local) == datetime_lt(start_local, now_local)

\* The route, from the arrival of the body to the token-refresh post: the
\* framework validates the body into CreateEventRequest before it calls the
\* handler; the handler runs to requests.post in _get_access_token.
create_event(r, raw, clock) ==
    /\ call[r].pc = "idle"
    /\ LET errors == ValidationErrors(raw)
           c0 == [call[r] EXCEPT !.raw = raw, !.raw_errors = errors]
       IN  IF errors # {}
           THEN Fail(r, c0, 422, "validation error")
           ELSE LET req == CreateEventRequest(raw)
                    c1 == [c0 EXCEPT !.req = req]
                IN  IF ~_require_env
                    THEN Fail(r, c1, 500, "Server missing env vars")
                    ELSE LET n == normalize_start_end(req.start, req.durationMinutes,
                                                      req.timezone)
                         IN  IF ~n.ok
                             THEN Fail(r, c1, n.status, "Invalid timezone")
                             ELSE LET now_local == datetime_now(gettz(req.timezone), clock)
                                      c2 == [c1 EXCEPT !.start_local = n.start_local,
                                                       !.end_local = n.end_local,
                                                       !.now_local = now_local]
                                  IN  IF in_past(n.start_local, now_local)
                                      THEN Fail(r, c2, 400, "Start time is in the past")
                                      ELSE /\ call' = [call EXCEPT ![r] =
                                                  [c2 EXCEPT !.request_id = _make_request_id(req),
                                                             !.pc = "token_wait"]]
                                           /\ outbound' = [outbound EXCEPT ![r] =
                                                  post_token_refresh(r)]
    /\ UNCHANGED <<GOOGLE_CLIENT_ID, GOOGLE_CLIENT_SECRET, GOOGLE_REFRESH_TOKEN>>
    /\ UNCHANGED <<helperVars, nz>>

\* _get_access_token from the provider's answer on, and create_event up to
\* the insert post.  An exception of requests.post or of resp.json() is not
\* caught: the framework answers 500.
token_reply(r, resp) ==
    /\ call[r].pc = "token_wait"
    /\ LET c == [call[r] EXCEPT !.token_resp = resp]
       IN  IF resp.raised \/ ~resp.parses
           THEN Fail(r, c, 500, "Internal Server Error")
           ELSE IF resp.status_code # 200 \/ "access_token" \notin DOMAIN resp.data
           THEN Fail(r, c, 502, "Google token refresh failed")
           ELSE LET c1 == [c EXCEPT !.access_token = resp.data.access_token,
                                    !.pc = "insert_wait"]
                IN  /\ call' = [call EXCEPT ![r] = c1]
                    /\ outbound' = [outbound EXCEPT ![r] = post_insert(r, c1)]
    /\ UNCHANGED <<GOOGLE_CLIENT_ID, GOOGLE_CLIENT_SECRET, GOOGLE_REFRESH_TOKEN>>
    /\ UNCHANGED <<helperVars, nz>>

\* data.get(key, default)
Get(data, key, default) == IF key \in DOMAIN data THEN data[key] ELSE default

\* create_event from the provider's answer to the insert on
insert_reply(r, resp) ==
    /\ call[r].pc = "insert_wait"
    /\ LET c == [call[r] EXCEPT !.insert_resp = resp]
       IN  IF resp.raised \/ ~resp.parses
           THEN Fail(r, c, 500, "Internal Server Error")
           ELSE IF resp.status_code \notin {200, 201}
           THEN Fail(r, c, 502, "Google Calendar insert failed")
           ELSE /\ call' = [call EXCEPT ![r] =
                       [c EXCEPT !.pc = "done", !.status = 200,
                                 !.response =
                                    [eventId |-> Get(resp.data, "id", ""),
                                     htmlLink |-> Get(resp.data, "htmlLink", "None"),
                                     summary |-> Get(resp.data, "summary", c.req.title),
                                     start |-> Get(Get(resp.data, "start", [none |-> 0]),
                                                   "dateTime", isoformat(c.start_local)),
                                     end |-> Get(Get(resp.data, "end", [none |-> 0]),
                                                 "dateTime", isoformat(c.end_local)),
                                     calendarId |-> "primary",
                                     requestId |-> c.request_id]]]
                /\ UNCHANGED outbound
    /\ UNCHANGED <<GOOGLE_CLIENT_ID, GOOGLE_CLIENT_SECRET, GOOGLE_REFRESH_TOKEN>>
    /\ UNCHANGED <<helperVars, nz>>

-----------------------------------------------------------------------------
(* get_refresh_token.py                                                     *)

Callbacks == 1..NumCallbacks

StateTokens == {"st-A", "st-B"}

\* request.args.get(key): the value, or None
Arg(args, key) ==
    IF key \in DOMAIN args THEN [some |-> TRUE, val |-> args[key]]
    ELSE [some |-> FALSE, val |-> ""]
Some(val) == [some |-> TRUE, val |-> val]

\* the query strings tried: state and code each absent or present
AuthCodes == {"", "4/auth-code"}
CallbackArgs ==
    {<< >>} \cup {[state |-> s] : s \in StateTokens} \cup {[code |-> c] : c \in AuthCodes}
        \cup {[state |-> s, code |-> c] : s \in StateTokens, c \in AuthCodes}

ExchangeOutcomes ==
    {Raised, Response(200, FALSE, NotJson), Response(400, FALSE, NotJson),
     Response(400, TRUE, [error |-> "invalid_grant"]),
     Response(200, TRUE, [access_token |-> "ya29.a"]),
     Response(200, TRUE, [access_token |-> "ya29.a", refresh_token |-> ""]),
     Response(200, TRUE, [access_token |-> "ya29.a", refresh_token |-> "1//refresh"])}

IdleCallback ==
    [pc |-> "idle", args |-> << >>, seq |-> 0, token_resp |-> Raised, status |-> 0,
     page |-> "", printed |-> ""]

\* index(): the page with the authorization link, which embeds STATE
index ==
    /\ link' = OAUTH_STATE
    /\ UNCHANGED <<OAUTH_STATE, cb, exchange, serviceVars, nz>>

\* the callback answers without an exchange
Answer(k, c, status, page) ==
    /\ cb' = [cb EXCEPT ![k] = [c EXCEPT !.pc = "done", !.status = status, !.page = page]]
    /\ UNCHANGED exchange

state_mismatch_if_given(args) ==
    Arg(args, "state").some /\ Arg(args, "state") # Some(OAUTH_STATE)

\* request.args.get("state") != STATE
state_mismatch(args) == Arg(args, "state") # Some(OAUTH_STATE)

\* not code: the parameter is absent or empty
missing_code(args) == ~Arg(args, "code").some \/ Arg(args, "code").val = ""

exchange_failed_5xx(resp) == resp.status_code >= 500

\* token_resp.status_code != 200
exchange_failed(resp) == resp.status_code # 200

oauth2callback_discard(k, args) ==
    /\ cb[k].pc = "idle"
    /\ LET c == [cb[k] EXCEPT !.args = args,
                              !.seq = Cardinality({j \in Callbacks : cb[j].pc # "idle"})]
       IN  IF state_mismatch(args)
           THEN Answer(k, c, 400, "State mismatch. Abort.")
           ELSE IF missing_code(args)
           THEN Answer(k, c, 400, "Missing code.")
           ELSE /\ cb' = [cb EXCEPT ![k] = [c EXCEPT !.pc = "exchange_wait"]]
                /\ exchange' = [exchange EXCEPT ![k] =
                       Append(@, [url |-> TokenUrl, code |-> args["code"],
                                  grant_type |-> "authorization_code"])]
    /\ OAUTH_STATE' = "discarded"
    /\ UNCHANGED <<link, serviceVars, nz>>

\* oauth2callback, from the arrival of the request to the token-exchange post
oauth2callback(k, args) ==
    /\ cb[k].pc = "idle"
    /\ LET c == [cb[k] EXCEPT !.args = args,
                              !.seq = Cardinality({j \in Callbacks : cb[j].pc # "idle"})]
       IN  IF state_mismatch(args)
           THEN Answer(k, c, 400, "State mismatch. Abort.")
           ELSE IF missing_code(args)
           THEN Answer(k, c, 400, "Missing code.")
           ELSE /\ cb' = [cb EXCEPT ![k] = [c EXCEPT !.pc = "exchange_wait"]]
                /\ exchange' = [exchange EXCEPT ![k] =
                       Append(@, [url |-> TokenUrl, code |-> args["code"],
                                  grant_type |-> "authorization_code"])]
    /\ UNCHANGED <<OAUTH_STATE, link, serviceVars, nz>>

\* oauth2callback from the provider's answer on.  An exception of
\* requests.post or of token_resp.json() is not caught: the framework
\* answers 500.
exchange_reply(k, resp) ==
    /\ cb[k].pc = "exchange_wait"
    /\ LET c == [cb[k] EXCEPT !.token_resp = resp]
       IN  IF resp.raised \/ ~resp.parses
           THEN Answer(k, c, 500, "Internal Server Error")
           ELSE IF exchange_failed(resp)
           THEN Answer(k, c, 500, "Token exchange failed")
           ELSE IF Get(resp.data, "refresh_token", "") = ""
           THEN Answer(k, c, 200, "No refresh_token returned.")
           ELSE Answer(k, [c EXCEPT !.printed = resp.data.refresh_token], 200,
                       "Success: " \o resp.data.refresh_token)
    /\ UNCHANGED <<OAUTH_STATE, link, serviceVars, nz>>

-----------------------------------------------------------------------------
(* Inputs                                                                   *)

ZoneNames == {"UTC", "Europe/London", "America/Los_Angeles", "Mars/Olympus"}
StartWalls == {30 * i : i \in 0..MaxStartSlot}
StartInputs ==
    {NaiveStart(w) : w \in StartWalls}
        \cup {AwareStart(w, off) : w \in StartWalls, off \in {0, 60}}
\* what the service's clock may read (UTC minutes)
ClockReadings == {30, 90, 150}

BaseRaw ==
    [present |-> BodyKeys, name |-> "Ada", title |-> "Sync", start |-> NaiveStart(180),
     durationMinutes |-> 30, timezone |-> "Europe/London", invitees |-> << >>]

\* the base body with one field out of range, ill-formed or left out
FieldVariants ==
    {[BaseRaw EXCEPT !.name = n] : n \in {"", Repeat("n", NameMaxLength),
                                          Repeat("n", NameMaxLength + 1)}}
    \cup {[BaseRaw EXCEPT !.title = t] : t \in {"", Repeat("t", TitleMaxLength),
                                                Repeat("t", TitleMaxLength + 1)}}
    \cup {[BaseRaw EXCEPT !.timezone = z] : z \in {"", Repeat("z", TimezoneMaxLength + 1)}}
    \cup {[BaseRaw EXCEPT !.start = BadStart]}
    \cup {[BaseRaw EXCEPT !.invitees = i] :
              i \in {<<"ada@example.com">>, <<"ada@example.com", "not-an-email">>}}
    \cup {[BaseRaw EXCEPT !.present = BodyKeys \ {k}] : k \in BodyKeys}

\* the base body over the starts, zones and durations
TimeVariants ==
    {[BaseRaw EXCEPT !.start = s, !.timezone = z, !.durationMinutes = d] :
        s \in StartInputs, z \in ZoneNames,
        d \in {DurationMin - 1, DurationMin, DurationMax, DurationMax + 1}}

RawBodies == FieldVariants \cup TimeVariants

\* the bodies of concurrent calls: two callers, one of them sending twice
ConcurrentBodies == {BaseRaw, [BaseRaw EXCEPT !.name = "Bob"]}

-----------------------------------------------------------------------------
(* normalize_start_end on its own                                           *)

normalize ==
    /\ nz.pc = "called"
    /\ nz' = [nz EXCEPT !.pc = "returned",
                        !.out = normalize_start_end(nz.start_dt, nz.duration_minutes,
                                                    nz.timezone)]
    /\ UNCHANGED <<serviceVars, helperVars>>

NzIdle ==
    [pc |-> "idle", start_dt |-> NoDatetime, duration_minutes |-> 0, timezone |-> "",
     out |-> normalize_start_end(NoDatetime, 0, "")]

-----------------------------------------------------------------------------
(* Specifications                                                           *)

EnvValues == {"", "set"}

ServiceInit ==
    /\ GOOGLE_CLIENT_ID \in EnvValues
    /\ GOOGLE_CLIENT_SECRET \in EnvValues
    /\ GOOGLE_REFRESH_TOKEN \in EnvValues
    /\ call = [r \in Requests |-> IdleCall]
    /\ outbound = [r \in Requests |-> << >>]

ServiceOff ==
    /\ GOOGLE_CLIENT_ID = "set"
    /\ GOOGLE_CLIENT_SECRET = "set"
    /\ GOOGLE_REFRESH_TOKEN = "set"
    /\ call = [r \in Requests |-> IdleCall]
    /\ outbound = [r \in Requests |-> << >>]

HelperInit ==
    /\ OAUTH_STATE \in StateTokens
    /\ link = ""
    /\ cb = [k \in Callbacks |-> IdleCallback]
    /\ exchange = [k \in Callbacks |-> << >>]

HelperOff ==
    /\ OAUTH_STATE = "st-A"
    /\ link = ""
    /\ cb = [k \in Callbacks |-> IdleCallback]
    /\ exchange = [k \in Callbacks |-> << >>]

\* one create_event call, over all the bodies and clock readings
Init == ServiceInit /\ HelperOff /\ nz = NzIdle

Next ==
    \/ \E raw \in RawBodies, clock \in ClockReadings : create_event(1, raw, clock)
    \/ \E resp \in TokenOutcomes : token_reply(1, resp)
    \/ \E resp \in InsertOutcomes : insert_reply(1, resp)

Spec == Init /\ [][Next]_vars

\* concurrent create_event calls
NextConcurrent ==
    \/ \E r \in Requests, raw \in ConcurrentBodies : create_event(r, raw, 30)
    \/ \E r \in Requests, resp \in TokenOutcomes : token_reply(r, resp)
    \/ \E r \in Requests, resp \in InsertOutcomes : insert_reply(r, resp)

SpecConcurrent == Init /\ [][NextConcurrent]_vars

\* the helper process
InitHelper == ServiceOff /\ HelperInit /\ nz = NzIdle

NextHelper ==
    \/ index
    \/ \E k \in Callbacks, args \in CallbackArgs : oauth2callback(k, args)
    \/ \E k \in Callbacks, resp \in ExchangeOutcomes : exchange_reply(k, resp)

SpecHelper == InitHelper /\ [][NextHelper]_vars

\* normalize_start_end over its arguments
InitNormalize ==
    /\ ServiceOff
    /\ HelperOff
    /\ nz \in {[pc |-> "called", start_dt |-> s, duration_minutes |-> d, timezone |-> z,
                out |-> NzIdle.out] :
                  s \in {x.dt : x \in StartInputs \cup {AwareStart(w, -420) : w \in StartWalls}},
                  d \in {DurationMin, DurationDefault, DurationMax}, z \in ZoneNames}

SpecNormalize == InitNormalize /\ [][normalize]_vars

-----------------------------------------------------------------------------
(* Properties                                                               *)

Posts(r, url) == Len(SelectSeq(outbound[r], LAMBDA m : m.url = url))
TokenPosts(r) == Posts(r, TokenUrl)
InsertPosts(r) == Posts(r, InsertUrl)

EnvIncomplete ==
    GOOGLE_CLIENT_ID = "" \/ GOOGLE_CLIENT_SECRET = "" \/ GOOGLE_REFRESH_TOKEN = ""

Misconfigured(c) == c.pc = "done" /\ c.status = 500 /\ c.detail = "Server missing env vars"
EventInPast(c) == c.pc = "done" /\ c.status = 400 /\ c.detail = "Start time is in the past"

\* C1 as stated: whenever a configuration value is empty, every create-event
\* request ends 500 ServiceMisconfigured, whatever its body, and issues no
\* outbound call.
C1_ConfigCheckedBeforeBody ==
    \A r \in Requests :
        (call[r].pc # "idle" /\ EnvIncomplete)
            => (Misconfigured(call[r]) /\ outbound[r] = << >>)

\* C1 amended: whenever a configuration value is empty, a request issues no
\* outbound call and ends 422 when its body violates a field constraint (the
\* body is validated first) and 500 ServiceMisconfigured otherwise, ahead of
\* the timezone and past-start checks.
C1_ConfigCheckedAfterBody ==
    \A r \in Requests :
        (call[r].pc # "idle" /\ EnvIncomplete)
            => /\ outbound[r] = << >>
               /\ call[r].pc = "done"
               /\ (call[r].raw_errors = {} => Misconfigured(call[r]))
               /\ (call[r].raw_errors # {} => call[r].status = 422)

\* a well-formed body with an unresolvable timezone is answered 500 when the
\* refresh token is missing
C1_Witness ==
    /\ GOOGLE_REFRESH_TOKEN = ""
    /\ call[1].raw_errors = {}
    /\ call[1].req.timezone = "Mars/Olympus"
    /\ Misconfigured(call[1])

C3_DurationOutOfRangeRejected ==
    \A r \in Requests :
        (call[r].pc # "idle" /\ "durationMinutes" \in call[r].raw.present)
            => LET d == call[r].raw.durationMinutes
               IN  /\ (d < 15 \/ d > 240)
                          => /\ call[r].pc = "done"
                             /\ call[r].status = 422
                             /\ "durationMinutes" \in call[r].raw_errors
                             /\ outbound[r] = << >>
                   /\ (d >= 15 /\ d <= 240) => "durationMinutes" \notin call[r].raw_errors

\* a body with durationMinutes 241 and everything else in order, complete
\* configuration, answered 422
C3_Witness ==
    /\ ~EnvIncomplete
    /\ call[1].raw.durationMinutes = 241
    /\ call[1].raw_errors = {"durationMinutes"}
    /\ call[1].status = 422

\* the access-credential step of call r has failed
TokenStepFailed(c) ==
    /\ c.pc = "done"
    /\ c.detail \in {"Internal Server Error", "Google token refresh failed"}
    /\ c.access_token = ""

\* C5 as stated: every failure of the access-credential step (status other
\* than 200, no access credential, unparseable body, timeout or connection
\* error) ends the request 502, and no event insert is issued.
C5_TokenFailureIs502 ==
    \A r \in Requests :
        (TokenPosts(r) = 1 /\ TokenStepFailed(call[r]))
            => (call[r].status = 502 /\ InsertPosts(r) = 0)

\* the calls that passed the configuration, body, timezone and past-start checks
PassedChecks(c) ==
    /\ c.pc # "idle"
    /\ c.detail \notin {"validation error", "Server missing env vars", "Invalid timezone",
                        "Start time is in the past"}

TokenSucceeded(resp) ==
    /\ ~resp.raised
    /\ resp.parses
    /\ resp.status_code = 200
    /\ "access_token" \in DOMAIN resp.data

\* C6: under any interleaving, a call that passed the checks has issued
\* exactly one token-refresh post, a call that did not has issued none; a
\* call issues at most one insert, after its token post, only once its own
\* refresh succeeded, and with the access credential that refresh returned.
C6_OneRefreshPerCallOwnCredential ==
    \A r \in Requests :
        /\ (PassedChecks(call[r]) => TokenPosts(r) = 1)
        /\ (~PassedChecks(call[r]) => outbound[r] = << >>)
        /\ InsertPosts(r) <= 1
        /\ InsertPosts(r) = 1
              => /\ Len(outbound[r]) = 2
                 /\ outbound[r][1].url = TokenUrl
                 /\ outbound[r][2].url = InsertUrl
                 /\ TokenSucceeded(call[r].token_resp)
                 /\ outbound[r][2].bearer = call[r].token_resp.data.access_token
        /\ (call[r].pc \in {"insert_wait"} \/ call[r].status = 200) => InsertPosts(r) = 1

\* two calls in flight with different access credentials, each insert
\* carrying its own
C6_Witness ==
    \E r1, r2 \in Requests :
        /\ InsertPosts(r1) = 1
        /\ InsertPosts(r2) = 1
        /\ outbound[r1][2].bearer = "ya29.a"
        /\ outbound[r2][2].bearer = "ya29.b"

\* C8: two calls with identical fields that both succeed have each issued
\* their own insert, and both responses carry the same requestId; calls with
\* identical fields compute the same fingerprint.
C8_FingerprintNeverDeduplicates ==
    \A r1, r2 \in Requests :
        (r1 # r2 /\ call[r1].req = call[r2].req /\ PassedChecks(call[r1])
                 /\ PassedChecks(call[r2]))
            => /\ call[r1].request_id = call[r2].request_id
               /\ (call[r1].status = 200 /\ call[r2].status = 200)
                      => /\ InsertPosts(r1) = 1
                         /\ InsertPosts(r2) = 1
                         /\ call[r1].response.requestId = call[r2].response.requestId
                         /\ call[r1].response.requestId = call[r1].request_id

C8_Witness ==
    \E r1, r2 \in Requests :
        /\ r1 # r2
        /\ call[r1].req = call[r2].req
        /\ call[r1].status = 200
        /\ call[r2].status = 200
        /\ InsertPosts(r1) = 1
        /\ InsertPosts(r2) = 1
        /\ call[r1].response.requestId = call[r2].response.requestId

\* the callback's state parameter is the given value
StateIs(args, val) == "state" \in DOMAIN args /\ args["state"] = val
\* the callback carries a non-empty code parameter
HasCode(args) == "code" \in DOMAIN args /\ args["code"] # ""

StateMismatchAnswer(c) ==
    c.pc = "done" /\ c.status = 400 /\ c.page = "State mismatch. Abort."

\* C4: a callback whose state parameter is absent or differs from the
\* generated value is answered 400 and sends no token exchange, with or
\* without a code parameter.
C4_StateMismatchNoExchange ==
    \A k \in Callbacks :
        (cb[k].pc # "idle" /\ ~StateIs(cb[k].args, OAUTH_STATE))
            => (StateMismatchAnswer(cb[k]) /\ exchange[k] = << >>)

\* callbacks carrying a code, one without a state and one with the wrong
\* state, both answered 400
C4_Witness ==
    \E k1, k2 \in Callbacks :
        /\ HasCode(cb[k1].args) /\ "state" \notin DOMAIN cb[k1].args
        /\ StateMismatchAnswer(cb[k1])
        /\ HasCode(cb[k2].args) /\ "state" \in DOMAIN cb[k2].args
        /\ StateMismatchAnswer(cb[k2])

\* the provider answered the exchange with a success: 200 and a JSON body
ExchangeSucceeded(resp) == ~resp.raised /\ resp.parses /\ resp.status_code = 200
HasRefreshToken(resp) ==
    "refresh_token" \in DOMAIN resp.data /\ resp.data.refresh_token # ""

\* C9: a callback whose state matches is answered 400 with no exchange when
\* it carries no code; otherwise it sends exactly one token exchange and is
\* answered 500 when the provider's answer is not a success, 200 with the
\* diagnostic page on a success without a refresh credential, 200 with the
\* credential shown on a success with one.
C9_CallbackOutcomes ==
    \A k \in Callbacks :
        (cb[k].pc # "idle" /\ StateIs(cb[k].args, OAUTH_STATE))
            => /\ ~HasCode(cb[k].args)
                     => /\ cb[k].pc = "done"
                        /\ cb[k].status = 400
                        /\ cb[k].page = "Missing code."
                        /\ exchange[k] = << >>
               /\ HasCode(cb[k].args)
                     => /\ Len(exchange[k]) = 1
                        /\ exchange[k][1].code = cb[k].args["code"]
                        /\ cb[k].pc = "done"
                              => LET resp == cb[k].token_resp
                                 IN  /\ ~ExchangeSucceeded(resp) => cb[k].status = 500
                                     /\ (ExchangeSucceeded(resp) /\ ~HasRefreshToken(resp))
                                           => /\ cb[k].status = 200
                                              /\ cb[k].page = "No refresh_token returned."
                                     /\ (ExchangeSucceeded(resp) /\ HasRefreshToken(resp))
                                           => /\ cb[k].status = 200
                                              /\ cb[k].page = "Success: "
                                                     \o resp.data.refresh_token

\* one callback refused by the provider, another given a refresh credential
C9_Witness ==
    \E k1, k2 \in Callbacks :
        /\ cb[k1].pc = "done" /\ Len(exchange[k1]) = 1
        /\ ~cb[k1].token_resp.raised /\ cb[k1].token_resp.status_code = 400
        /\ cb[k1].status = 500
        /\ cb[k2].pc = "done" /\ Len(exchange[k2]) = 1
        /\ cb[k2].status = 200 /\ cb[k2].printed = "1//refresh"

\* C10 as stated: once one callback has been checked against the state
\* token, a later callback carrying that state value is refused and sends no
\* exchange (here: a callback arriving after one with the same state was
\* answered).
C10_StateDiscardedAfterFirstCallback ==
    \A k \in Callbacks :
        (/\ cb[k].pc # "idle"
         /\ StateIs(cb[k].args, OAUTH_STATE)
         /\ \E j \in Callbacks : /\ cb[j].pc = "done"
                                 /\ cb[j].seq < cb[k].seq
                                 /\ StateIs(cb[j].args, OAUTH_STATE))
            => (exchange[k] = << >> /\ (cb[k].pc = "done" => cb[k].status = 400))

\* C10 amended: the state token is created at process start and held
\* unchanged for the life of the process: the link page keeps showing it,
\* and every callback carrying it, however many were checked before, passes
\* the state check and sends a token exchange when it carries a code.
C10_StateHeldForProcessLifetime ==
    /\ OAUTH_STATE \in StateTokens
    /\ link # "" => link = OAUTH_STATE
    /\ \A k \in Callbacks :
          (cb[k].pc # "idle" /\ link # "" /\ StateIs(cb[k].args, link))
              => /\ ~StateMismatchAnswer(cb[k])
                 /\ HasCode(cb[k].args) => Len(exchange[k]) = 1

\* a second callback with the same state, arriving after the first was
\* answered, sends its own exchange
C10_Witness ==
    \E k1, k2 \in Callbacks :
        /\ cb[k1].pc = "done" /\ cb[k1].seq = 0 /\ Len(exchange[k1]) = 1
        /\ cb[k2].seq = 1 /\ Len(exchange[k2]) = 1
        /\ cb[k1].args["state"] = cb[k2].args["state"]

\* the offset in force in a zone at a UTC instant
OffsetAt(name, u) ==
    IF u < ZoneRules[name].trans THEN ZoneRules[name].before ELSE ZoneRules[name].after

=============================================================================
